---- MODULE Spec2Model ----
(***************************************************************************)
(* A model of the master/slave PostgreSQL access layer and the sales       *)
(* service of src/src/main.py.                                             *)
(*                                                                         *)
(* Spec      the service operations (SalesService, DatabaseManager) run by *)
(*           several callers that interleave at the granularity of one     *)
(*           pool call, one statement, one commit.                         *)
(*                                                                         *)
(* SpecPool  the two SimpleConnectionPool objects of DatabaseManager,      *)
(*           shared (st.cache_resource) by the threads of the front end's  *)
(*           sessions, each thread running get_master_connection or        *)
(*           get_slave_connection around a with body. The pool takes no    *)
(*           lock, so the threads interleave between the pool's own        *)
(*           statements.                                                   *)
(*                                                                         *)
(* SpecStart the script runs of the sessions constructing the memoized     *)
(*           DatabaseManager (get_database_manager, _initialize_pools)     *)
(*           while the endpoints come and go.                              *)
(*                                                                         *)
(* SpecList  get_transactions over stores of up to MaxListed sales.        *)
(*                                                                         *)
(* SpecShared create_transaction run by two session threads whose          *)
(*           checkouts go through the unlocked write pool, a connection    *)
(*           and its transaction being possibly held by both.              *)
(*                                                                         *)
(* Spec keeps the pool variables fixed and SpecPool the service variables: *)
(* in Spec a caller's checkout is the pool it holds a connection of. Both  *)
(* start with the DatabaseManager constructed.                             *)
(*                                                                         *)
(* Money is an integer number of sub-cent units: one cent is Cent units,   *)
(* so a value that is a whole number of cents is a multiple of Cent and a  *)
(* NUMERIC(n, 2) column holds multiples of Cent only.                      *)
(***************************************************************************)
EXTENDS Integers, Sequences, FiniteSets, TLC

\* ------------------------------------------------------------- bounds
NCallers == 2
MaxItems == 2
MaxSales == 2
SubCentDigits == 1
MaxPage == 2
MaxPageSize == 1
MaxCalls == 2
MaxFaults == 1
NThreads == 2
MaxHeld == 9
MaxKeys == 11
MaxEntered == 3
MaxListed == 15
MaxListPage == 3
MaxListSize == 10

\* ---------------------------------------------------- program constants
MinConn == 1
MaxConn == 10
TopLimit == 10

Callers == 1..NCallers
Threads == 1..NThreads
Pools == {"master", "slave"}
Cent == 10^SubCentDigits

\* ------------------------------------------------------------ inputs
\* One element of items_data: the dict the caller hands to create_transaction.
\* has_discount = FALSE is a dict without the 'discount' key.
Item(q, p, d, h, n) ==
    [quantity |-> q, unit_price |-> p, discount |-> d, has_discount |-> h,
     product_name |-> n]

Catalogue ==
    { Item(2, 1000 * Cent, 0, TRUE, "P001"),
      Item(1, 550 * Cent, 50 * Cent, TRUE, "P002"),
      Item(3, Cent \div 2, 0, TRUE, "P003"),
      Item(1, 2 * Cent, 0, FALSE, "P004") }

Baskets == UNION { [1..n -> Catalogue] : n \in 0..MaxItems }

UpdateAmounts == {7 * Cent, Cent \div 2}
SaleIds == 1..MaxSales

\* ------------------------------------------------------- pure functions
\* item_data.get('discount', 0)
GetDiscount(i) == IF i.has_discount THEN i.discount ELSE 0

\* ItemTotal without the discount subtracted.
ItemTotalNoDiscount(i) == i.unit_price * i.quantity

\* (unit_price * quantity) - discount, in exact decimal arithmetic
ItemTotal(i) == (i.unit_price * i.quantity) - GetDiscount(i)

RECURSIVE SumTotals(_)
SumTotals(items) ==
    IF items = <<>> THEN 0
    ELSE ItemTotal(Head(items)) + SumTotals(Tail(items))

RECURSIVE SumDiscounts(_)
SumDiscounts(items) ==
    IF items = <<>> THEN 0
    ELSE GetDiscount(Head(items)) + SumDiscounts(Tail(items))

\* The value a NUMERIC(n, 2) column keeps of x: rounded to a whole number of
\* cents, ties away from zero.
Numeric2(x) ==
    IF x >= 0 THEN ((x + Cent \div 2) \div Cent) * Cent
    ELSE -((((-x) + Cent \div 2) \div Cent) * Cent)

RECURSIVE SumOver(_, _)
\* sum of f[r] over the rows r of the finite set S (f a function on S)
SumOver(S, f) ==
    IF S = {} THEN 0
    ELSE LET r == CHOOSE x \in S : TRUE
         IN f[r] + SumOver(S \ {r}, [x \in S \ {r} |-> f[x]])

\* ------------------------------------------------------------ database
\* A database endpoint's content: the tables that exist and their rows.
SALES == "sales_transaction"
ITEMS == "sales_item"

EmptyDb == [tables |-> {}, sales |-> {}, items |-> {}]

\* A statement with its parameters. The store-assigned values
\* (transaction_id / item_id of an insert, created_at) are filled in when
\* the statement is executed.
NoStmt ==
    [kind |-> "none", table |-> "", transaction_id |-> 0, item_id |-> 0,
     fields |-> "", total_amount |-> 0, total_discount |-> 0,
     product_name |-> "", quantity |-> 0, unit_price |-> 0, discount |-> 0,
     total_price |-> 0, page_size |-> 0, offset |-> 0]

WriteKinds ==
    {"create_table", "insert_sale", "insert_item", "update_sale", "delete_sale"}
ReadKinds ==
    {"select_page", "select_one", "select_items", "select_stats",
     "select_top", "select_trend"}

SaleRow(db, id) == CHOOSE r \in db.sales : r.transaction_id = id
HasSale(db, id) == \E r \in db.sales : r.transaction_id = id
ItemsOf(db, id) == { i \in db.items : i.transaction_id = id }

\* StmtFails of a sales_item table without REFERENCES sales_transaction.
StmtFailsNoReference(s, db) ==
    CASE s.kind = "create_table" -> s.table = ITEMS /\ SALES \notin db.tables
      [] s.kind = "insert_item" -> ITEMS \notin db.tables
      [] s.kind \in {"select_items", "select_top"} -> ITEMS \notin db.tables
      [] s.kind = "select_stats" -> ~({SALES, ITEMS} \subseteq db.tables)
      [] OTHER -> SALES \notin db.tables

\* StmtFails with CREATE TABLE in place of CREATE TABLE IF NOT EXISTS.
StmtFailsIfExists(s, db) ==
    CASE s.kind = "create_table" ->
            \/ s.table \in db.tables
            \/ s.table = ITEMS /\ SALES \notin db.tables
      [] s.kind = "insert_item" ->
            ITEMS \notin db.tables \/ ~HasSale(db, s.transaction_id)
      [] s.kind \in {"select_items", "select_top"} -> ITEMS \notin db.tables
      [] s.kind = "select_stats" -> ~({SALES, ITEMS} \subseteq db.tables)
      [] OTHER -> SALES \notin db.tables

\* The statement raises: its table is missing, or a sales_item row would
\* reference a sales_transaction row that does not exist.
StmtFails(s, db) ==
    CASE s.kind = "create_table" -> s.table = ITEMS /\ SALES \notin db.tables
      [] s.kind = "insert_item" ->
            ITEMS \notin db.tables \/ ~HasSale(db, s.transaction_id)
      [] s.kind \in {"select_items", "select_top"} -> ITEMS \notin db.tables
      [] s.kind = "select_stats" -> ~({SALES, ITEMS} \subseteq db.tables)
      [] OTHER -> SALES \notin db.tables

\* The row an INSERT INTO sales_transaction stores (NUMERIC(12, 2) totals).
StoredSale(s) ==
    [transaction_id |-> s.transaction_id, fields |-> s.fields,
     total_amount |-> Numeric2(s.total_amount),
     total_discount |-> Numeric2(s.total_discount),
     created_at |-> s.transaction_id]

\* The row an INSERT INTO sales_item stores (NUMERIC(10, 2) unit_price and
\* discount, NUMERIC(12, 2) total_price).
StoredItem(s) ==
    [item_id |-> s.item_id, transaction_id |-> s.transaction_id,
     product_name |-> s.product_name, quantity |-> s.quantity,
     unit_price |-> Numeric2(s.unit_price), discount |-> Numeric2(s.discount),
     total_price |-> Numeric2(s.total_price)]

\* UpdatedSale with total_discount reset by the update.
UpdatedSaleNoDiscount(r, s) ==
    [r EXCEPT !.fields = s.fields, !.total_amount = Numeric2(s.total_amount),
              !.total_discount = 0]

\* The row UPDATE sales_transaction ... WHERE transaction_id = %s leaves.
UpdatedSale(r, s) ==
    [r EXCEPT !.fields = s.fields, !.total_amount = Numeric2(s.total_amount)]

\* CascadeDelete without the cascade: the items stay.
NoCascadeDelete(items, id) == items

\* transaction_id INT REFERENCES sales_transaction ... ON DELETE CASCADE: the
\* sales_item rows left when sale id is deleted.
CascadeDelete(items, id) == { i \in items : i.transaction_id # id }

\* The committed effect of a write statement on the database.
Apply(s, db) ==
    CASE s.kind = "create_table" -> [db EXCEPT !.tables = @ \cup {s.table}]
      [] s.kind = "insert_sale" -> [db EXCEPT !.sales = @ \cup {StoredSale(s)}]
      [] s.kind = "insert_item" -> [db EXCEPT !.items = @ \cup {StoredItem(s)}]
      [] s.kind = "update_sale" ->
            [db EXCEPT !.sales =
                { IF r.transaction_id = s.transaction_id
                    THEN UpdatedSale(r, s) ELSE r : r \in @ }]
      [] s.kind = "delete_sale" ->
            \* ON DELETE CASCADE removes the items of the deleted sale
            [db EXCEPT
                !.sales = { r \in @ : r.transaction_id # s.transaction_id },
                !.items = CascadeDelete(@, s.transaction_id)]
      [] OTHER -> db

\* cursor.fetchall() after a write: the RETURNING rows (db is the database
\* after the statement). A statement without RETURNING has no description
\* and execute_write_query returns None, modelled as no rows.
Returning(s, db) ==
    IF s.kind \in {"insert_sale", "update_sale"} /\ HasSale(db, s.transaction_id)
      THEN << SaleRow(db, s.transaction_id) >>
      ELSE << >>

\* ------------------------------------------------------------- queries
RECURSIVE SortSalesDesc(_)
\* ORDER BY created_at DESC
SortSalesDesc(S) ==
    IF S = {} THEN << >>
    ELSE LET m == CHOOSE r \in S : \A q \in S : q.created_at <= r.created_at
         IN << m >> \o SortSalesDesc(S \ {m})

RECURSIVE SortItemsAsc(_)
\* ORDER BY item_id
SortItemsAsc(S) ==
    IF S = {} THEN << >>
    ELSE LET m == CHOOSE i \in S : \A q \in S : i.item_id <= q.item_id
         IN << m >> \o SortItemsAsc(S \ {m})

\* LIMIT n OFFSET o
LimitOffset(rows, n, o) ==
    IF o >= Len(rows) THEN << >>
    ELSE SubSeq(rows, o + 1, IF o + n < Len(rows) THEN o + n ELSE Len(rows))

\* sales_transaction st LEFT JOIN sales_item si ON the transaction_id: one
\* row per item of a sale, and one row (item_id 0, quantity NULL, summed as
\* nothing) for a sale without items.
JoinRows(db) ==
    { [transaction_id |-> p[1].transaction_id, item_id |-> p[2].item_id,
       total_amount |-> p[1].total_amount, quantity |-> p[2].quantity]
        : p \in { q \in db.sales \X db.items :
                    q[2].transaction_id = q[1].transaction_id } }
    \cup
    { [transaction_id |-> r.transaction_id, item_id |-> 0,
       total_amount |-> r.total_amount, quantity |-> 0]
        : r \in { x \in db.sales : ItemsOf(db, x.transaction_id) = {} } }

\* The one row of the get_sales_stats query. The average is kept as the
\* fraction num / den (AVG over the joined rows; 0 when there is none).
StatsRow(db) ==
    LET J == JoinRows(db)
        revenue == SumOver(J, [j \in J |-> j.total_amount])
    IN [total_transactions |-> Cardinality({ j.transaction_id : j \in J }),
        total_revenue |-> revenue,
        total_items_sold |-> SumOver(J, [j \in J |-> j.quantity]),
        average_transaction_value |->
            [num |-> revenue, den |-> IF J = {} THEN 1 ELSE Cardinality(J)]]

\* GROUP BY product_name with SUM(quantity), SUM(total_price)
ProductGroups(db) ==
    { LET G == { i \in db.items : i.product_name = n }
      IN [product_name |-> n,
          total_quantity |-> SumOver(G, [i \in G |-> i.quantity]),
          total_revenue |-> SumOver(G, [i \in G |-> i.total_price])]
        : n \in { i.product_name : i \in db.items } }

RECURSIVE SortGroupsDesc(_)
\* ORDER BY total_quantity DESC (the order among equal quantities is the
\* database's choice)
SortGroupsDesc(S) ==
    IF S = {} THEN << >>
    ELSE LET m == CHOOSE g \in S : \A q \in S : q.total_quantity <= g.total_quantity
         IN << m >> \o SortGroupsDesc(S \ {m})

\* GROUP BY DATE(transaction_time): the descriptive fields value stands for
\* the day of the sale, every sale lying in the trailing window.
DayOf(f) == IF f = "f1" THEN 1 ELSE 2

RECURSIVE SortDaysAsc(_)
SortDaysAsc(S) ==
    IF S = {} THEN << >>
    ELSE LET m == CHOOSE g \in S : \A q \in S : g.date <= q.date
         IN << m >> \o SortDaysAsc(S \ {m})

TrendGroups(db) ==
    { LET G == { r \in db.sales : DayOf(r.fields) = d }
      IN [date |-> d,
          total_amount |-> SumOver(G, [r \in G |-> r.total_amount]),
          transaction_count |-> Cardinality(G)]
        : d \in { DayOf(r.fields) : r \in db.sales } }

\* cursor.fetchall() of a statement run on database db.
Query(s, db) ==
    CASE s.kind = "select_page" ->
            LimitOffset(SortSalesDesc(db.sales), s.page_size, s.offset)
      [] s.kind = "select_one" ->
            IF HasSale(db, s.transaction_id)
              THEN << SaleRow(db, s.transaction_id) >> ELSE << >>
      [] s.kind = "select_items" -> SortItemsAsc(ItemsOf(db, s.transaction_id))
      [] s.kind = "select_stats" -> << StatsRow(db) >>
      [] s.kind = "select_top" ->
            LimitOffset(SortGroupsDesc(ProductGroups(db)), s.page_size, 0)
      [] s.kind = "select_trend" -> SortDaysAsc(TrendGroups(db))
      [] OTHER -> Returning(s, db)

\* --------------------------------------------------------------- state
VARIABLES
    master,       \* content of the write endpoint
    slave,        \* content of the read endpoint (a replica of the master)
    seqT,         \* last value of sales_transaction's transaction_id sequence
    seqI,         \* last value of sales_item's item_id sequence
    pc,           \* per caller: position in the executor
    op,           \* per caller: the service call in progress (or the last one)
    stmt,         \* per caller: the statement being run
    k,            \* per caller: loop index (0 parent insert, j the j-th item)
    transaction,  \* per caller: create_transaction's SalesTransaction
    conn,         \* per caller: pool of the connection held, or "none"
    ret,          \* per caller: outcome of the last service call
    origin,       \* history: the basket each sale was created from
    updated,      \* history: sales changed by update_transaction
    calls,        \* history: number of service calls made
    faults,       \* history: number of injected driver failures
    \* the two SimpleConnectionPool objects and the threads that share them
    idle,         \* per pool: _pool, the list of idle connections
    used,         \* per pool: _used, the dict key -> connection
    rused,        \* per pool: _rused, the dict id(connection) -> key
    keys,         \* per pool: _keys, the last key handed out
    nconn,        \* per pool: number of connections opened so far
    held,         \* per pool: connections held by operations of other sessions
    tpc,          \* per thread: position in the context manager
    tpool,        \* per thread: pool of the context manager entered
    treg,         \* per thread: the value of _keys it loaded
    tkey,         \* per thread: the key _getkey() returned
    tconn,        \* per thread: the local variable connection (0 is None)
    texc,         \* per thread: the exception in flight ("" when none)
    entered,      \* history: number of with statements entered by the threads
    \* the construction of the DatabaseManager by the sessions' script runs
    memo,         \* st.cache_resource's entry of get_database_manager
    reach,        \* the pools whose endpoint accepts connections
    spc,          \* per session: position of its script run in main()
    built,        \* per session: pools of the DatabaseManager it constructs
    \* the write connections as the threads that hold them see them
    pending,      \* statements executed and not yet committed, in order,
                  \* each with the write connection it ran on
    closed        \* the write connections that were closed

serviceVars ==
    << master, slave, seqT, seqI, pc, op, stmt, k, transaction,
       conn, ret, origin, updated, calls, faults >>

poolVars ==
    << idle, used, rused, keys, nconn, held, tpc, tpool, treg, tkey, tconn, texc,
       entered >>

startVars == << memo, reach, spc, built >>

sharedVars == << pending, closed >>

vars == << serviceVars, poolVars, startVars, sharedVars >>

NoSale ==
    [transaction_id |-> 0, fields |-> "", total_amount |-> 0,
     total_discount |-> 0, created_at |-> 0]

NoOp ==
    [name |-> "none", items |-> << >>, transaction_id |-> 0, fields |-> "",
     total_amount |-> 0, page |-> 0, page_size |-> 0, up |-> Pools]

NoRet == [status |-> "none", cause |-> "", sale |-> NoSale, ok |-> FALSE, rows |-> << >>]

\* ------------------------------------------------- statements of the service

\* INSERT INTO sales_transaction ... RETURNING ... with create_transaction's params
SaleInsert(fields, items) ==
    [NoStmt EXCEPT !.kind = "insert_sale", !.fields = fields,
                   !.total_amount = SumTotals(items),
                   !.total_discount = SumDiscounts(items)]

\* ItemInsert with the total_price parameter left without the discount.
ItemInsertNoDiscount(tid, i) ==
    [NoStmt EXCEPT !.kind = "insert_item", !.transaction_id = tid,
                   !.product_name = i.product_name, !.quantity = i.quantity,
                   !.unit_price = i.unit_price, !.discount = i.discount,
                   !.total_price = i.unit_price * i.quantity]

\* INSERT INTO sales_item ... with item_params
ItemInsert(tid, i) ==
    [NoStmt EXCEPT !.kind = "insert_item", !.transaction_id = tid,
                   !.product_name = i.product_name, !.quantity = i.quantity,
                   !.unit_price = i.unit_price, !.discount = i.discount,
                   !.total_price = ItemTotal(i)]

SaleUpdate(tid, fields, amount) ==
    [NoStmt EXCEPT !.kind = "update_sale", !.transaction_id = tid,
                   !.fields = fields, !.total_amount = amount]

SaleDelete(tid) == [NoStmt EXCEPT !.kind = "delete_sale", !.transaction_id = tid]

CreateTable(tb) == [NoStmt EXCEPT !.kind = "create_table", !.table = tb]

Select(kind, tid, n, o) ==
    [NoStmt EXCEPT !.kind = kind, !.transaction_id = tid, !.page_size = n,
                   !.offset = o]

\* The executor a statement is handed to by the service method that builds it.
Executor(s) ==
    IF s.kind \in WriteKinds THEN "execute_write_query"
    ELSE IF s.kind \in {"select_one", "select_stats"} THEN "execute_read_query_one"
    ELSE "execute_read_query"

\* PoolOf with every executor on the read pool.
PoolOfSlaveOnly(executor) == "slave"

\* The pool an executor checks its connection out of.
PoolOf(executor) ==
    IF executor = "execute_write_query" THEN "master" ELSE "slave"

\* What the endpoints hold when the program starts: nothing, the two tables
\* (an earlier create_tables), or the tables and one sale that an earlier
\* create_transaction stored with its item.
FirstBasket == << Item(1, 550 * Cent, 50 * Cent, TRUE, "P002") >>

Histories ==
    LET tables == [EmptyDb EXCEPT !.tables = {SALES, ITEMS}]
        sale == [SaleInsert("f1", FirstBasket) EXCEPT !.transaction_id = 1]
        item == [ItemInsert(1, FirstBasket[1]) EXCEPT !.item_id = 1]
    IN { [db |-> EmptyDb, seqT |-> 0, seqI |-> 0],
         [db |-> tables, seqT |-> 0, seqI |-> 0],
         [db |-> Apply(item, Apply(sale, tables)), seqT |-> 1, seqI |-> 1] }

InitService ==
    /\ \E h \in Histories :
          /\ master = h.db
          /\ seqT = h.seqT
          /\ seqI = h.seqI
          /\ origin = [id \in SaleIds |-> IF id <= h.seqT THEN FirstBasket ELSE << >>]
    /\ slave = master
    /\ pc = [t \in Callers |-> "idle"]
    /\ op = [t \in Callers |-> NoOp]
    /\ stmt = [t \in Callers |-> NoStmt]
    /\ k = [t \in Callers |-> 0]
    /\ transaction = [t \in Callers |-> NoSale]
    /\ conn = [t \in Callers |-> "none"]
    /\ ret = [t \in Callers |-> NoRet]
    /\ updated = {}
    /\ calls = 0
    /\ faults = 0

\* ----------------------------------------------------------- the pools
\* SimpleConnectionPool(1, 10, ...): minconn connections are opened and kept
\* idle; nothing is checked out.
InitPool ==
    /\ idle = [p \in Pools |-> [i \in 1..MinConn |-> i]]
    /\ used = [p \in Pools |-> {}]
    /\ rused = [p \in Pools |-> {}]
    /\ keys = [p \in Pools |-> 0]
    /\ nconn = [p \in Pools |-> MinConn]
    /\ held = [p \in Pools |-> {}]
    /\ tpc = [t \in Threads |-> "idle"]
    /\ tpool = [t \in Threads |-> "none"]
    /\ treg = [t \in Threads |-> 0]
    /\ tkey = [t \in Threads |-> 0]
    /\ tconn = [t \in Threads |-> 0]
    /\ texc = [t \in Threads |-> ""]
    /\ entered = 0

\* The script runs have constructed and memoized the DatabaseManager.
Started ==
    /\ memo = "manager"
    /\ reach = Pools
    /\ spc = [c \in Callers |-> "serving"]
    /\ built = [c \in Callers |-> {}]

\* No write connection has a transaction open, none is closed.
Unshared ==
    /\ pending = << >>
    /\ closed = {}

Init == InitService /\ InitPool /\ Started /\ Unshared

\* -------------------------------------------------------- the executors
\* AfterRollback with the failed statement's effect kept.
AfterNoRollback(s, db) == Apply(s, db)

\* connection.rollback(): the statements executed on the connection since
\* its last commit are discarded, the database is as it was.
AfterRollback(s, db) == db

\* ------------------------------------------- the course of a service call
Ret(status, cause, sale, ok, rows) ==
    [status |-> status, cause |-> cause, sale |-> sale, ok |-> ok, rows |-> rows]

Resume(t, at, s, j, tr, r) ==
    /\ pc' = [pc EXCEPT ![t] = at]
    /\ stmt' = [stmt EXCEPT ![t] = s]
    /\ k' = [k EXCEPT ![t] = j]
    /\ transaction' = [transaction EXCEPT ![t] = tr]
    /\ ret' = [ret EXCEPT ![t] = r]

\* the call ends: it returns or raises
Finish(t, j, tr, r) == Resume(t, "done", NoStmt, j, tr, r)

\* the call hands its next statement to an executor
Issue(t, s, j, tr) == Resume(t, "getconn", s, j, tr, ret[t])

Raised(t, exc) ==
    Finish(t, k[t], transaction[t], Ret("raised", exc, NoSale, FALSE, << >>))

\* CreateItems with an empty items_data refused.
CreateItemsRejectingEmpty(t, j, tr) ==
    IF Len(op[t].items) = 0
      THEN Finish(t, j, tr, Ret("raised", "ValueError", NoSale, FALSE, << >>))
    ELSE IF j > Len(op[t].items)
      THEN Finish(t, k[t], tr, Ret("ok", "", tr, TRUE, << >>))
    ELSE IF ~op[t].items[j].has_discount
      THEN Finish(t, j, tr, Ret("raised", "KeyError", NoSale, FALSE, << >>))
    ELSE Issue(t, ItemInsert(tr.transaction_id, op[t].items[j]), j, tr)

\* create_transaction's loop over items_data from the j-th item on, tr being
\* the SalesTransaction built from the parent insert's row.
CreateItems(t, j, tr) ==
    IF j > Len(op[t].items)
      THEN Finish(t, k[t], tr, Ret("ok", "", tr, TRUE, << >>))
    ELSE IF ~op[t].items[j].has_discount
      THEN \* item_data['discount'] raises KeyError
           Finish(t, j, tr, Ret("raised", "KeyError", NoSale, FALSE, << >>))
    ELSE Issue(t, ItemInsert(tr.transaction_id, op[t].items[j]), j, tr)

\* FoundResult with the absent result raised as an error.
FoundResultOrRaise(rws) ==
    IF rws = << >> THEN Ret("raised", "NotFound", NoSale, FALSE, << >>)
    ELSE Ret("ok", "", rws[1], TRUE, << >>)

\* get_transaction / update_transaction: SalesTransaction(**row) of the row
\* the executor handed back, or None when it handed back none.
FoundResult(rws) ==
    Ret("ok", "", IF rws # << >> THEN rws[1] ELSE NoSale, rws # << >>, << >>)

\* DeleteResult without the except branch: the exception leaves the call.
DeleteResultRaising(exc) ==
    Ret(IF exc = "" THEN "ok" ELSE "raised", exc, NoSale, exc = "", << >>)

\* delete_transaction's outcome: return True, or except Exception: return
\* False (exc is kept beside the value for the record).
DeleteResult(exc) == Ret("ok", exc, NoSale, exc = "", << >>)

\* What the service method does with the outcome of the executor call it
\* made: exc is the exception the executor raised ("" when it returned), rws
\* the rows it returned.
OnResult(t, exc, rws) ==
    CASE op[t].name = "create_transaction" ->
            IF exc # "" THEN Raised(t, exc)
            ELSE IF k[t] = 0
              THEN IF rws = << >>
                     THEN Raised(t, "Failed to create transaction")
                     ELSE CreateItems(t, 1, rws[1])
              ELSE CreateItems(t, k[t] + 1, transaction[t])
      [] op[t].name = "create_tables" ->
            IF exc # "" THEN Raised(t, exc)
            ELSE IF k[t] = 1 THEN Issue(t, CreateTable(ITEMS), 2, NoSale)
            ELSE Finish(t, k[t], NoSale, Ret("ok", "", NoSale, TRUE, << >>))
      [] op[t].name = "delete_transaction" ->
            Finish(t, k[t], NoSale, DeleteResult(exc))
      [] op[t].name \in {"update_transaction", "get_transaction"} ->
            IF exc # "" THEN Raised(t, exc)
            ELSE Finish(t, k[t], NoSale, FoundResult(rws))
      [] OTHER ->
            IF exc # "" THEN Raised(t, exc)
            ELSE Finish(t, k[t], NoSale, Ret("ok", "", NoSale, TRUE, rws))

\* -------------------------------------------------------------- actions
\* The driver failures that may be injected into a statement or a commit.
Faults == IF faults < MaxFaults THEN BOOLEAN ELSE {FALSE}

storeVars == << master, slave, seqT, seqI, origin, updated >>

\* sale inserts called but not yet executed (each will draw a transaction_id)
PendingInserts ==
    Cardinality({ u \in Callers :
                    stmt[u].kind = "insert_sale" /\ pc[u] \in {"getconn", "execute"} })

Call(t, o, s, j) ==
    /\ pc[t] = "idle"
    /\ \A u \in Callers : u < t => pc[u] # "idle"
    /\ calls < MaxCalls
    /\ calls' = calls + 1
    /\ op' = [op EXCEPT ![t] = o]
    /\ Resume(t, "getconn", s, j, NoSale, NoRet)
    /\ UNCHANGED << storeVars, conn, faults, poolVars, startVars, sharedVars >>

create_transaction(t) ==
    /\ seqT + PendingInserts < MaxSales
    /\ \E items \in Baskets :
          Call(t, [NoOp EXCEPT !.name = "create_transaction", !.items = items,
                               !.fields = "f1"],
               SaleInsert("f1", items), 0)

update_transaction(t) ==
    \E id \in SaleIds, a \in UpdateAmounts :
        Call(t, [NoOp EXCEPT !.name = "update_transaction", !.transaction_id = id,
                             !.fields = "f2", !.total_amount = a],
             SaleUpdate(id, "f2", a), 0)

delete_transaction(t) ==
    \E id \in SaleIds :
        Call(t, [NoOp EXCEPT !.name = "delete_transaction", !.transaction_id = id],
             SaleDelete(id), 0)

create_tables(t) ==
    Call(t, [NoOp EXCEPT !.name = "create_tables"], CreateTable(SALES), 1)

\* Offset counting the pages from 0.
OffsetFromPage(page, page_size) == page * page_size

\* offset = (page - 1) * page_size
Offset(page, page_size) == (page - 1) * page_size

\* SalesService.get_transactions(page, page_size)
GetTransactions(t, page, page_size) ==
    Call(t, [NoOp EXCEPT !.name = "get_transactions", !.page = page,
                         !.page_size = page_size],
         Select("select_page", 0, page_size, Offset(page, page_size)), 0)

get_transactions(t) ==
    \E page \in 1..MaxPage, page_size \in 1..MaxPageSize :
        GetTransactions(t, page, page_size)

get_transaction(t) ==
    \E id \in SaleIds :
        Call(t, [NoOp EXCEPT !.name = "get_transaction", !.transaction_id = id],
             Select("select_one", id, 0, 0), 0)

get_items_by_transaction(t) ==
    \E id \in SaleIds :
        Call(t, [NoOp EXCEPT !.name = "get_items_by_transaction",
                             !.transaction_id = id],
             Select("select_items", id, 0, 0), 0)

get_sales_stats(t) ==
    Call(t, [NoOp EXCEPT !.name = "get_sales_stats"], Select("select_stats", 0, 0, 0), 0)

get_top_products(t) ==
    Call(t, [NoOp EXCEPT !.name = "get_top_products", !.page_size = TopLimit],
         Select("select_top", 0, TopLimit, 0), 0)

get_sales_trend(t) ==
    Call(t, [NoOp EXCEPT !.name = "get_sales_trend"], Select("select_trend", 0, 0, 0), 0)

\* with self.get_master_connection() as conn: the checkout
get_master_connection(t) ==
    /\ pc[t] = "getconn"
    /\ PoolOf(Executor(stmt[t])) = "master"
    /\ \E fail \in Faults :
          /\ faults' = IF fail THEN faults + 1 ELSE faults
          /\ IF fail
               THEN \* getconn() raises: nothing is checked out
                    /\ OnResult(t, "PoolError", << >>)
                    /\ UNCHANGED conn
               ELSE /\ conn' = [conn EXCEPT ![t] = "master"]
                    /\ pc' = [pc EXCEPT ![t] = "execute"]
                    /\ UNCHANGED << stmt, k, transaction, ret >>
    /\ UNCHANGED << storeVars, op, calls, poolVars, startVars, sharedVars >>

\* with self.get_slave_connection() as conn: the checkout
get_slave_connection(t) ==
    /\ pc[t] = "getconn"
    /\ PoolOf(Executor(stmt[t])) = "slave"
    /\ \E fail \in Faults :
          /\ faults' = IF fail THEN faults + 1 ELSE faults
          /\ IF fail
               THEN \* getconn() raises: nothing is checked out
                    /\ OnResult(t, "PoolError", << >>)
                    /\ UNCHANGED conn
               ELSE /\ conn' = [conn EXCEPT ![t] = "slave"]
                    /\ pc' = [pc EXCEPT ![t] = "execute"]
                    /\ UNCHANGED << stmt, k, transaction, ret >>
    /\ UNCHANGED << storeVars, op, calls, poolVars, startVars, sharedVars >>

\* The statement with the values the store assigns when it is executed.
Assigned(s) ==
    CASE s.kind = "insert_sale" -> [s EXCEPT !.transaction_id = seqT + 1]
      [] s.kind = "insert_item" -> [s EXCEPT !.item_id = seqI + 1]
      [] OTHER -> s

\* execute_write_query: cursor.execute(query, params). A failure leaves the
\* with block by its except branch: rollback, putconn, re-raise.
execute_write_query_execute(t) ==
    /\ pc[t] = "execute"
    /\ conn[t] = "master"
    /\ \E fail \in Faults :
          /\ faults' = IF fail THEN faults + 1 ELSE faults
          /\ IF fail \/ StmtFails(stmt[t], master)
            THEN /\ master' = AfterRollback(stmt[t], master)
                 /\ conn' = [conn EXCEPT ![t] = "none"]
                 /\ OnResult(t, "StatementError", << >>)
                 /\ UNCHANGED << seqT, seqI >>
            ELSE /\ stmt' = [stmt EXCEPT ![t] = Assigned(@)]
                 /\ seqT' = IF stmt[t].kind = "insert_sale" THEN seqT + 1 ELSE seqT
                 /\ seqI' = IF stmt[t].kind = "insert_item" THEN seqI + 1 ELSE seqI
                 /\ pc' = [pc EXCEPT ![t] = "commit"]
                 /\ UNCHANGED << master, conn, k, transaction, ret >>
    /\ UNCHANGED << slave, origin, updated, op, calls, poolVars, startVars, sharedVars >>

\* execute_write_query: conn.commit(), the rows fetched, the with block left
\* (putconn); or the commit fails: rollback, putconn, re-raise.
execute_write_query_commit(t) ==
    /\ pc[t] = "commit"
    /\ conn[t] = "master"
    /\ conn' = [conn EXCEPT ![t] = "none"]
    /\ \E fail \in Faults :
          /\ faults' = IF fail THEN faults + 1 ELSE faults
          /\ IF fail \/ StmtFails(stmt[t], master)
            THEN /\ master' = AfterRollback(stmt[t], master)
                 /\ OnResult(t, "CommitError", << >>)
                 /\ UNCHANGED << origin, updated >>
            ELSE /\ master' = Apply(stmt[t], master)
                 /\ origin' =
                      CASE stmt[t].kind = "insert_sale" ->
                              [origin EXCEPT ![stmt[t].transaction_id] = op[t].items]
                        [] stmt[t].kind = "delete_sale" ->
                              [origin EXCEPT ![stmt[t].transaction_id] = << >>]
                        [] OTHER -> origin
                 /\ updated' =
                      CASE stmt[t].kind = "update_sale"
                             /\ HasSale(master, stmt[t].transaction_id) ->
                              updated \cup {stmt[t].transaction_id}
                        [] stmt[t].kind = "delete_sale" ->
                              updated \ {stmt[t].transaction_id}
                        [] OTHER -> updated
                 /\ OnResult(t, "", Returning(stmt[t], Apply(stmt[t], master)))
    /\ UNCHANGED << slave, seqT, seqI, op, calls, poolVars, startVars, sharedVars >>

\* The rows an executor of the read side hands back: fetchall(), or the
\* first row alone for execute_read_query_one's fetchone().
Fetched(executor, rows) ==
    IF executor = "execute_read_query_one" /\ rows # << >>
      THEN << rows[1] >> ELSE rows

\* execute_read_query / execute_read_query_one on an autocommit connection:
\* execute, fetch, and the with block left (putconn) whether it raised or not.
ReadExecute(t) ==
    /\ pc[t] = "execute"
    /\ conn[t] = "slave"
    /\ conn' = [conn EXCEPT ![t] = "none"]
    /\ \E fail \in Faults :
          /\ faults' = IF fail THEN faults + 1 ELSE faults
          /\ IF fail \/ StmtFails(stmt[t], slave)
            THEN /\ OnResult(t, "StatementError", << >>)
                 /\ UNCHANGED slave
            ELSE /\ slave' = Apply(stmt[t], slave)
                 /\ IF stmt[t].kind \in WriteKinds \ {"insert_sale", "update_sale"}
                      THEN \* nothing to fetch
                           OnResult(t, "ProgrammingError", << >>)
                      ELSE OnResult(t, "",
                               Fetched(Executor(stmt[t]),
                                       Query(stmt[t], Apply(stmt[t], slave))))
    /\ UNCHANGED << master, seqT, seqI, origin, updated, op, calls, poolVars, startVars, sharedVars >>

execute_read_query(t) ==
    Executor(stmt[t]) = "execute_read_query" /\ ReadExecute(t)

execute_read_query_one(t) ==
    Executor(stmt[t]) = "execute_read_query_one" /\ ReadExecute(t)

\* The read endpoint catches up with the write endpoint (replication runs
\* outside the program).
Replicate ==
    /\ slave # master
    /\ slave' = master
    /\ UNCHANGED << master, seqT, seqI, origin, updated, pc, op, stmt, k,
                    transaction, conn, ret, calls, faults, poolVars, startVars, sharedVars >>

\* check_connection is called while the endpoints of the pools in up answer
\* and the others do not: status = {"master": False, "slave": False}.
check_connection(t) ==
    /\ pc[t] = "idle"
    /\ \A u \in Callers : u < t => pc[u] # "idle"
    /\ calls < MaxCalls
    /\ calls' = calls + 1
    /\ \E up \in SUBSET Pools :
          op' = [op EXCEPT ![t] = [NoOp EXCEPT !.name = "check_connection",
                                                !.up = up]]
    /\ Resume(t, "probe_master", NoStmt, 0, NoSale,
              Ret("none", "", NoSale, FALSE, << [p \in Pools |-> FALSE] >>))
    /\ UNCHANGED << storeVars, conn, faults, poolVars, startVars, sharedVars >>

\* ProbeStatus with one try region around both probes: nothing is set once
\* an earlier probe failed.
ProbeStatusOneRegion(status, p, answered) ==
    [status EXCEPT ![p] = answered /\ (p = "master" \/ status["master"])]

\* One try region of check_connection: the with block on a connection of
\* pool p runs SELECT 1 and sets status[p] = True; when the endpoint does
\* not answer the exception leaves the with block and is passed over.
ProbeStatus(status, p, answered) == [status EXCEPT ![p] = answered]

\* check_connection's first region (checkout, SELECT 1, release; no store
\* is changed by the round trip).
check_connection_master(t) ==
    /\ pc[t] = "probe_master"
    /\ Resume(t, "probe_slave", NoStmt, 0, NoSale,
              [ret[t] EXCEPT !.rows =
                  << ProbeStatus(@[1], "master", "master" \in op[t].up) >>])
    /\ UNCHANGED << storeVars, op, conn, calls, faults, poolVars, startVars, sharedVars >>

\* check_connection's second region, and return status.
check_connection_slave(t) ==
    /\ pc[t] = "probe_slave"
    /\ Finish(t, 0, NoSale,
              Ret("ok", "", NoSale, TRUE,
                  << ProbeStatus(ret[t].rows[1], "slave", "slave" \in op[t].up) >>))
    /\ UNCHANGED << storeVars, op, conn, calls, faults, poolVars, startVars, sharedVars >>

\* The caller takes the outcome of its call; nothing of the call is kept.
TakeResult(t) ==
    /\ pc[t] = "done"
    /\ op' = [op EXCEPT ![t] = NoOp]
    /\ Resume(t, "idle", NoStmt, 0, NoSale, NoRet)
    /\ UNCHANGED << storeVars, conn, calls, faults, poolVars, startVars, sharedVars >>

Next ==
    \/ \E t \in Callers :
          \/ create_transaction(t)
          \/ update_transaction(t)
          \/ delete_transaction(t)
          \/ create_tables(t)
          \/ get_transactions(t)
          \/ get_transaction(t)
          \/ get_items_by_transaction(t)
          \/ get_sales_stats(t)
          \/ get_top_products(t)
          \/ get_sales_trend(t)
          \/ get_master_connection(t)
          \/ get_slave_connection(t)
          \/ execute_write_query_execute(t)
          \/ execute_write_query_commit(t)
          \/ execute_read_query(t)
          \/ execute_read_query_one(t)
          \/ check_connection(t)
          \/ check_connection_master(t)
          \/ check_connection_slave(t)
          \/ TakeResult(t)
    \/ Replicate

Spec == Init /\ [][Next]_vars

\* ===================================================== the shared pools
\* SimpleConnectionPool is the pool class without a lock: every statement of
\* getconn() and putconn() below is a step of its own, and the threads of
\* the sessions interleave between them.

UsedKeys(p) == { e.key : e \in used[p] }
UsedConn(p, key) == (CHOOSE e \in used[p] : e.key = key).conn

\* _used[key] = c
SetUsed(U, key, c) == { e \in U : e.key # key } \cup { [key |-> key, conn |-> c] }

\* _rused[id(c)] = key
SetRused(R, c, key) == { e \in R : e.conn # c } \cup { [conn |-> c, key |-> key] }

\* _rused.get(id(c)): the key, or 0 for None
RusedGet(p, c) ==
    IF \E e \in rused[p] : e.conn = c
      THEN (CHOOSE e \in rused[p] : e.conn = c).key ELSE 0

Front(q) == SubSeq(q, 1, Len(q) - 1)
Last(q) == q[Len(q)]

threadVars == << tpc, tpool, treg, tkey, tconn, texc >>

\* The with statement is entered: getconn() starts and _getkey() loads _keys.
EnterConnection(t, p) ==
    /\ tpc[t] = "idle"
    /\ \A u \in Threads : u < t => tpc[u] # "idle"
    /\ entered < MaxEntered
    /\ entered' = entered + 1
    /\ keys[p] < MaxKeys
    /\ tpool' = [tpool EXCEPT ![t] = p]
    /\ treg' = [treg EXCEPT ![t] = keys[p]]
    /\ tconn' = [tconn EXCEPT ![t] = 0]
    /\ texc' = [texc EXCEPT ![t] = ""]
    /\ tpc' = [tpc EXCEPT ![t] = "getkey_store"]
    /\ UNCHANGED << idle, used, rused, keys, nconn, held, tkey, serviceVars, startVars, sharedVars >>

enter_master_connection(t) == EnterConnection(t, "master")

enter_slave_connection(t) == EnterConnection(t, "slave")

\* _getkey(): self._keys += 1, the store of the incremented value
getkey_store(t) ==
    /\ tpc[t] = "getkey_store"
    /\ keys' = [keys EXCEPT ![tpool[t]] = treg[t] + 1]
    /\ tpc' = [tpc EXCEPT ![t] = "getkey_return"]
    /\ UNCHANGED << idle, used, rused, nconn, held, tpool, treg, tkey, tconn,
                    texc, entered, serviceVars, startVars, sharedVars >>

\* _getkey(): return self._keys
getkey_return(t) ==
    /\ tpc[t] = "getkey_return"
    /\ tkey' = [tkey EXCEPT ![t] = keys[tpool[t]]]
    /\ tpc' = [tpc EXCEPT ![t] = "getconn"]
    /\ UNCHANGED << idle, used, rused, keys, nconn, held, tpool, treg, tconn,
                    texc, entered, serviceVars, startVars, sharedVars >>

\* The operation ends (the with statement is left, or getconn() raised and
\* nothing was checked out); exc is the exception that leaves it.
Leave(t, exc) ==
    /\ tpc' = [tpc EXCEPT ![t] = "idle"]
    /\ tpool' = [tpool EXCEPT ![t] = "none"]
    /\ treg' = [treg EXCEPT ![t] = 0]
    /\ tkey' = [tkey EXCEPT ![t] = 0]
    /\ tconn' = [tconn EXCEPT ![t] = 0]
    /\ texc' = [texc EXCEPT ![t] = exc]

\* _getconn() after the key: the connection already under the key, or an
\* idle one popped and registered, or PoolError when maxconn are in use, or
\* on to _connect().
getconn(t) ==
    LET p == tpool[t] IN
    /\ tpc[t] = "getconn"
    /\ IF tkey[t] \in UsedKeys(p)
         THEN /\ tconn' = [tconn EXCEPT ![t] = UsedConn(p, tkey[t])]
              /\ tpc' = [tpc EXCEPT ![t] = "body"]
              /\ UNCHANGED << idle, used, rused, tpool, treg, tkey, texc >>
       ELSE IF idle[p] # << >>
         THEN /\ idle' = [idle EXCEPT ![p] = Front(@)]
              /\ used' = [used EXCEPT ![p] = SetUsed(@, tkey[t], Last(idle[p]))]
              /\ rused' = [rused EXCEPT ![p] = SetRused(@, Last(idle[p]), tkey[t])]
              /\ tconn' = [tconn EXCEPT ![t] = Last(idle[p])]
              /\ tpc' = [tpc EXCEPT ![t] = "body"]
              /\ UNCHANGED << tpool, treg, tkey, texc >>
       ELSE IF Cardinality(used[p]) = MaxConn
         THEN /\ Leave(t, "PoolError")
              /\ UNCHANGED << idle, used, rused >>
       ELSE /\ tpc' = [tpc EXCEPT ![t] = "connect"]
            /\ UNCHANGED << idle, used, rused, tpool, treg, tkey, tconn, texc >>
    /\ UNCHANGED << keys, nconn, held, entered, serviceVars, startVars, sharedVars >>

\* _connect(key): psycopg2.connect(...), then the new connection is
\* registered under the key.
connect(t) ==
    LET p == tpool[t]
        c == nconn[p] + 1
    IN /\ tpc[t] = "connect"
       /\ nconn' = [nconn EXCEPT ![p] = c]
       /\ used' = [used EXCEPT ![p] = SetUsed(@, tkey[t], c)]
       /\ rused' = [rused EXCEPT ![p] = SetRused(@, c, tkey[t])]
       /\ tconn' = [tconn EXCEPT ![t] = c]
       /\ tpc' = [tpc EXCEPT ![t] = "body"]
       /\ UNCHANGED << idle, keys, held, tpool, treg, tkey, texc, entered,
                       serviceVars, startVars, sharedVars >>

\* The outcomes of the with body and of the except branch.
BodyOutcomes(p) ==
    IF p = "master" THEN {"", "StatementError", "RollbackError"}
    ELSE {"", "StatementError"}

\* The with body runs on the connection: it returns, or it raises and
\* get_master_connection's except branch rolls back (the rollback may raise
\* too); then the finally branch is entered.
with_body(t) ==
    /\ tpc[t] = "body"
    /\ \E exc \in BodyOutcomes(tpool[t]) : texc' = [texc EXCEPT ![t] = exc]
    /\ tpc' = [tpc EXCEPT ![t] = "putconn"]
    /\ UNCHANGED << idle, used, rused, keys, nconn, held, tpool, treg, tkey,
                    tconn, entered, serviceVars, startVars, sharedVars >>

\* _putconn(conn): the key of the connection is looked up (PoolError when it
\* has none), the connection goes back to the idle list when fewer than
\* minconn are idle and it is usable, and is closed otherwise.
putconn(t) ==
    LET p == tpool[t]
        key == RusedGet(p, tconn[t])
    IN /\ tpc[t] = "putconn"
       /\ IF key = 0
            THEN /\ Leave(t, "PoolError")
                 /\ UNCHANGED idle
            ELSE /\ idle' = [idle EXCEPT ![p] =
                                IF Len(@) < MinConn /\ texc[t] # "RollbackError"
                                  THEN Append(@, tconn[t]) ELSE @]
                 /\ tkey' = [tkey EXCEPT ![t] = key]
                 /\ tpc' = [tpc EXCEPT ![t] = "putconn_del"]
                 /\ UNCHANGED << tpool, treg, tconn, texc >>
       /\ UNCHANGED << used, rused, keys, nconn, held, entered, serviceVars, startVars, sharedVars >>

\* _putconn(conn): del self._used[key]; del self._rused[id(conn)]. Either
\* raises KeyError when the entry is not there.
putconn_del(t) ==
    LET p == tpool[t] IN
    /\ tpc[t] = "putconn_del"
    /\ IF tkey[t] \notin UsedKeys(p)
         THEN /\ Leave(t, "KeyError")
              /\ UNCHANGED << used, rused >>
       ELSE /\ used' = [used EXCEPT ![p] = { e \in @ : e.key # tkey[t] }]
            /\ rused' = [rused EXCEPT ![p] = { e \in @ : e.conn # tconn[t] }]
            /\ Leave(t, IF RusedGet(p, tconn[t]) = 0 THEN "KeyError" ELSE texc[t])
    /\ UNCHANGED << idle, keys, nconn, held, entered, serviceVars, startVars, sharedVars >>

\* An operation of another session, started before the threads enter theirs,
\* checks a connection out (its getconn() running without a thread switch)
\* and keeps it while the threads run.
other_session_getconn(p) ==
    LET key == keys[p] + 1
        c == IF idle[p] # << >> THEN Last(idle[p]) ELSE nconn[p] + 1
    IN /\ entered = 0
       /\ keys[p] < MaxKeys
       /\ Cardinality(held[p]) < MaxHeld
       /\ idle[p] # << >> \/ Cardinality(used[p]) < MaxConn
       /\ keys' = [keys EXCEPT ![p] = key]
       /\ idle' = [idle EXCEPT ![p] = IF @ # << >> THEN Front(@) ELSE @]
       /\ nconn' = [nconn EXCEPT ![p] = IF idle[p] # << >> THEN @ ELSE c]
       /\ used' = [used EXCEPT ![p] = SetUsed(@, key, c)]
       /\ rused' = [rused EXCEPT ![p] = SetRused(@, c, key)]
       /\ held' = [held EXCEPT ![p] = @ \cup {c}]
       /\ UNCHANGED << threadVars, entered, serviceVars, startVars, sharedVars >>

NextPool ==
    \/ \E t \in Threads :
          \/ enter_master_connection(t)
          \/ enter_slave_connection(t)
          \/ getkey_store(t)
          \/ getkey_return(t)
          \/ getconn(t)
          \/ connect(t)
          \/ with_body(t)
          \/ putconn(t)
          \/ putconn_del(t)
    \/ \E p \in Pools : other_session_getconn(p)

\* The pools right after DatabaseManager() with the tables in place.
InitPoolSpec ==
    /\ InitPool
    /\ Unshared
    /\ InitService
    /\ Started
    /\ master.tables = {SALES, ITEMS}
    /\ master.sales = {}

SpecPool == InitPoolSpec /\ [][NextPool]_vars

\* ================================================== the construction
\* Constructed with the error of a pool passed over.
ConstructedAnyPool(b) == b # {}

\* DatabaseManager() returns the instance when _initialize_pools built the
\* pools b without raising.
Constructed(b) == b = Pools

\* The pools of a SimpleConnectionPool(1, 10, ...) pair of which b are
\* built: minconn connections opened and idle in each.
BuiltIdle(b) ==
    [p \in Pools |-> IF p \in b THEN [i \in 1..MinConn |-> i] ELSE << >>]
BuiltConn(b) == [p \in Pools |-> IF p \in b THEN MinConn ELSE 0]

constructionVars ==
    << serviceVars, used, rused, keys, held, threadVars, entered, sharedVars >>

\* An endpoint goes down or comes back.
EndpointChange(p) ==
    /\ reach' = IF p \in reach THEN reach \ {p} ELSE reach \cup {p}
    /\ UNCHANGED << memo, spc, built, idle, nconn, constructionVars >>

\* main(): get_database_manager() returns the memoized instance, or (one
\* session at a time, st.cache_resource computing under its lock) calls
\* DatabaseManager().
main(c) ==
    /\ spc[c] = "idle"
    /\ IF memo = "manager"
         THEN spc' = [spc EXCEPT ![c] = "serving"]
         ELSE /\ \A d \in Callers : spc[d] \notin {"master_pool", "slave_pool"}
              /\ spc' = [spc EXCEPT ![c] = "master_pool"]
    /\ built' = [built EXCEPT ![c] = {}]
    /\ UNCHANGED << memo, reach, idle, nconn, constructionVars >>

\* _initialize_pools: self._master_pool = SimpleConnectionPool(1, 10, ...)
\* opens minconn connections; when the endpoint refuses, st.error and raise:
\* DatabaseManager() raises, nothing is memoized, main() shows the error and
\* stops the script run.
initialize_master_pool(c) ==
    /\ spc[c] = "master_pool"
    /\ IF "master" \in reach
         THEN /\ built' = [built EXCEPT ![c] = {"master"}]
              /\ spc' = [spc EXCEPT ![c] = "slave_pool"]
         ELSE /\ spc' = [spc EXCEPT ![c] = "stopped"]
              /\ UNCHANGED built
    /\ UNCHANGED << memo, reach, idle, nconn, constructionVars >>

\* _initialize_pools: self._slave_pool = SimpleConnectionPool(1, 10, ...),
\* then DatabaseManager() returns and the instance is memoized; or the
\* endpoint refuses: st.error and raise as above, the instance with its
\* master pool being dropped.
initialize_slave_pool(c) ==
    LET b == IF "slave" \in reach THEN built[c] \cup {"slave"} ELSE built[c]
    IN /\ spc[c] = "slave_pool"
       /\ built' = [built EXCEPT ![c] = b]
       /\ IF Constructed(b)
            THEN /\ memo' = "manager"
                 /\ idle' = BuiltIdle(b)
                 /\ nconn' = BuiltConn(b)
                 /\ spc' = [spc EXCEPT ![c] = "serving"]
            ELSE /\ spc' = [spc EXCEPT ![c] = "stopped"]
                 /\ UNCHANGED << memo, idle, nconn >>
       /\ UNCHANGED << reach, constructionVars >>

\* The session's next interaction runs the script again.
rerun(c) ==
    /\ spc[c] \in {"serving", "stopped"}
    /\ spc' = [spc EXCEPT ![c] = "idle"]
    /\ UNCHANGED << memo, reach, built, idle, nconn, constructionVars >>

NextStart ==
    \/ \E p \in Pools : EndpointChange(p)
    \/ \E c \in Callers :
          \/ main(c)
          \/ initialize_master_pool(c)
          \/ initialize_slave_pool(c)
          \/ rerun(c)

\* Nothing is constructed yet; the tables exist in the endpoints.
InitStart ==
    /\ InitService
    /\ Unshared
    /\ master.tables = {SALES, ITEMS}
    /\ master.sales = {}
    /\ idle = BuiltIdle({})
    /\ nconn = BuiltConn({})
    /\ used = [p \in Pools |-> {}]
    /\ rused = [p \in Pools |-> {}]
    /\ keys = [p \in Pools |-> 0]
    /\ held = [p \in Pools |-> {}]
    /\ tpc = [t \in Threads |-> "idle"]
    /\ tpool = [t \in Threads |-> "none"]
    /\ treg = [t \in Threads |-> 0]
    /\ tkey = [t \in Threads |-> 0]
    /\ tconn = [t \in Threads |-> 0]
    /\ texc = [t \in Threads |-> ""]
    /\ entered = 0
    /\ memo = "none"
    /\ reach \in SUBSET Pools
    /\ spc = [c \in Callers |-> "idle"]
    /\ built = [c \in Callers |-> {}]

SpecStart == InitStart /\ [][NextStart]_vars

\* ============================================================= claims
CreateDone(t) == pc[t] = "done" /\ op[t].name = "create_transaction"
CreateOk(t) == CreateDone(t) /\ ret[t].status = "ok"

\* A statement or a commit of an executor call failed.
ExecutorErrors == {"StatementError", "CommitError"}

\* No caller is inside a service call.
Quiescent == \A t \in Callers : pc[t] \in {"idle", "done"}

\* unit_price and discount of every item are whole numbers of cents.
WholeCents(items) ==
    \A j \in DOMAIN items :
        items[j].unit_price % Cent = 0 /\ items[j].discount % Cent = 0

\* sum over L of (unit_price * quantity - discount), and of discount
ExactAmount(L) ==
    SumOver(DOMAIN L,
            [j \in DOMAIN L |-> L[j].unit_price * L[j].quantity - L[j].discount])
ExactDiscount(L) == SumOver(DOMAIN L, [j \in DOMAIN L |-> L[j].discount])

\* C1 (as claimed): when create_transaction ends with the error of an item
\* insert that failed after the parent insert succeeded, the write store
\* holds neither the parent row nor any item row of this call.
C1_FailureAtomicity ==
    \A t \in Callers :
        ( /\ CreateDone(t)
          /\ ret[t].status = "raised"
          /\ ret[t].cause \in ExecutorErrors
          /\ k[t] >= 1 )
        => /\ ~HasSale(master, transaction[t].transaction_id)
           /\ ItemsOf(master, transaction[t].transaction_id) = {}

\* C2 (as claimed): in every state the write store shows no sale with fewer
\* item rows than the list it was created from.
C2_AllOrNothingVisibility ==
    \A r \in master.sales :
        Cardinality(ItemsOf(master, r.transaction_id))
            >= Len(origin[r.transaction_id])

\* C3 (as claimed): whenever no call is in flight, every sale row that
\* update_transaction has not changed has total_amount equal to the sum of
\* total_price of its item rows and total_discount equal to the sum of their
\* discount.
C3_StoredTotals ==
    Quiescent =>
        \A r \in master.sales :
            r.transaction_id \notin updated =>
                LET I == ItemsOf(master, r.transaction_id)
                IN /\ r.total_amount = SumOver(I, [i \in I |-> i.total_price])
                   /\ r.total_discount = SumOver(I, [i \in I |-> i.discount])

\* The Sale a successful create_transaction returned has the exact totals of
\* its item list.
ReturnsExactTotals(t) ==
    /\ ret[t].sale.total_amount = ExactAmount(op[t].items)
    /\ ret[t].sale.total_discount = ExactDiscount(op[t].items)

\* The item list of C4's example: (10.00, qty 2, discount 0.00) and
\* (5.50, qty 1, discount 0.50).
ExampleItems ==
    << Item(2, 1000 * Cent, 0, TRUE, "P001"),
       Item(1, 550 * Cent, 50 * Cent, TRUE, "P002") >>

\* A successful create_transaction of the example's items returned the
\* totals amount / discount.
ExampleReturns(t, amount, discount) ==
    (CreateOk(t) /\ op[t].items = ExampleItems)
        => /\ ret[t].sale.total_amount = amount
           /\ ret[t].sale.total_discount = discount

\* C4 (amended): for every non-empty item list whose unit prices and
\* discounts are whole numbers of cents, the Sale a successful
\* create_transaction returns has total_amount = sum of (unit_price *
\* quantity - discount) and total_discount = sum of discount, exactly; the
\* example's items give total_amount 25.00 and total_discount 0.50.
C4_ExactTotals ==
    \A t \in Callers :
        /\ (CreateOk(t) /\ op[t].items # << >> /\ WholeCents(op[t].items))
              => ReturnsExactTotals(t)
        /\ ExampleReturns(t, 2500 * Cent, 50 * Cent)

\* C4 (as claimed): the exact totals for every non-empty item list, and the
\* example's items giving total_amount 24.50 and total_discount 0.50.
C4_ExactTotalsAsClaimed ==
    \A t \in Callers :
        /\ (CreateOk(t) /\ op[t].items # << >>) => ReturnsExactTotals(t)
        /\ ExampleReturns(t, 2450 * Cent, 50 * Cent)

\* The example's items were created and their Sale returned.
C4_Example == \E t \in Callers : CreateOk(t) /\ op[t].items = ExampleItems

\* The item rows of sale id in database db are those of the list L, one row
\* per element in the order of insertion.
RowsOfList(db, id, L) ==
    LET rows == SortItemsAsc(ItemsOf(db, id))
    IN /\ Len(rows) = Len(L)
       /\ \A j \in DOMAIN L :
             /\ rows[j].product_name = L[j].product_name
             /\ rows[j].quantity = L[j].quantity
             /\ rows[j].unit_price = Numeric2(L[j].unit_price)
             /\ rows[j].discount = Numeric2(L[j].discount)

\* Each item row's total_price is its own unit_price * quantity - discount.
RowTotals(db, id) ==
    \A i \in ItemsOf(db, id) :
        i.total_price = i.unit_price * i.quantity - i.discount

\* create_transaction of caller t returns its Sale in this step.
CreateReturns(t) ==
    /\ pc[t] # "done"
    /\ pc'[t] = "done"
    /\ op[t].name = "create_transaction"
    /\ ret'[t].status = "ok"

\* C5 (amended): when create_transaction returns its Sale, the write store
\* holds one item row per element of the item list, each row that of its
\* element; and, for a list whose unit prices and discounts are whole
\* numbers of cents, each row's total_price is its own stored unit_price *
\* quantity - discount.
C5_ItemRows ==
    [][ \A t \in Callers :
          CreateReturns(t) =>
            /\ RowsOfList(master', ret'[t].sale.transaction_id, op[t].items)
            /\ WholeCents(op[t].items) =>
                  RowTotals(master', ret'[t].sale.transaction_id) ]_vars

\* C5 (as claimed): the same, the total_price of every row of every list
\* being its own stored unit_price * quantity - discount.
C5_ItemRowsAnyPrice ==
    [][ \A t \in Callers :
          CreateReturns(t) =>
            /\ RowsOfList(master', ret'[t].sale.transaction_id, op[t].items)
            /\ RowTotals(master', ret'[t].sale.transaction_id) ]_vars

\* A create_transaction of two whole-cent items has returned and its two
\* rows are in the write store.
C5_TwoRows ==
    \E t \in Callers :
        /\ CreateOk(t)
        /\ Len(op[t].items) = 2
        /\ WholeCents(op[t].items)
        /\ Cardinality(ItemsOf(master, ret[t].sale.transaction_id)) = 2

\* Caller t takes a step of execute_write_query in this step.
WriteStep(t) ==
    /\ conn[t] = "master"
    /\ pc[t] \in {"execute", "commit"}
    /\ pc'[t] # pc[t]

\* ... and the step is a statement or a commit that failed.
WriteFails(t) == WriteStep(t) /\ ret'[t].cause \in ExecutorErrors

\* C6: execute_write_query commits the effect of its statement exactly once
\* when it returns; when the statement or the commit fails the write store
\* is left as it was, the connection is given back and the failure reaches
\* the caller as an exception, no row or Sale being returned.
C6_CommitOrRollback ==
    [][ \A t \in Callers :
          /\ (WriteStep(t) /\ pc'[t] = "commit") => master' = master
          /\ WriteFails(t) =>
                /\ master' = master
                /\ conn'[t] = "none"
                /\ ret'[t].sale = NoSale
                /\ ret'[t].rows = << >>
                /\ ~ret'[t].ok
                /\ op[t].name # "delete_transaction" => ret'[t].status = "raised"
          /\ (WriteStep(t) /\ pc[t] = "commit" /\ ~WriteFails(t)) =>
                /\ master' = Apply(stmt[t], master)
                /\ conn'[t] = "none" ]_vars

\* A commit failed and the call that made it has raised.
C6_CommitFailed ==
    \E t \in Callers :
        /\ pc[t] = "done"
        /\ ret[t].status = "raised"
        /\ ret[t].cause = "CommitError"

WriteOps ==
    {"create_transaction", "update_transaction", "delete_transaction",
     "create_tables"}
ReadOps ==
    {"get_transactions", "get_transaction", "get_items_by_transaction",
     "get_sales_stats", "get_top_products", "get_sales_trend"}

\* A caller holding a write-pool connection runs a write operation, one
\* holding a read-pool connection a read operation and a SELECT.
Routing ==
    \A t \in Callers :
        /\ conn[t] = "master" => op[t].name \in WriteOps
        /\ conn[t] = "slave" =>
              op[t].name \in ReadOps /\ stmt[t].kind \in ReadKinds
        /\ op[t].name \in WriteOps => conn[t] # "slave"
        /\ op[t].name \in ReadOps => conn[t] # "master"

\* The Sale of create_transaction is the row its insert stored in the write
\* endpoint, obtained on a write-pool connection, and the Sale it returns.
SaleFromMaster ==
    \A t \in Callers :
        /\ ( /\ op[t].name = "create_transaction"
             /\ transaction[t] = NoSale
             /\ transaction'[t] # NoSale )
           => /\ conn[t] = "master"
              /\ transaction'[t] \in master'.sales
        /\ CreateReturns(t) => ret'[t].sale = transaction'[t]

\* C10: the write operations check connections out of the write pool only
\* and the read operations out of the read pool only; the read endpoint
\* changes by replication alone (no caller's statement modifies it); and the
\* Sale create_transaction returns is the write endpoint's insert result.
C10_Routing ==
    /\ []Routing
    /\ [][ /\ SaleFromMaster
           /\ slave' # slave => slave' = master ]_vars

\* A write operation holds a write-pool connection while a read operation
\* holds a read-pool connection.
C10_BothPoolsInUse ==
    \E t, u \in Callers :
        /\ conn[t] = "master" /\ op[t].name = "create_transaction"
        /\ conn[u] = "slave" /\ op[u].name = "get_transactions"

\* ---------------------------------------------- claims on the shared pools
\* Thread t holds the connection of its with statement.
Holding(t) == tpc[t] \in {"body", "putconn"}

\* No operation is in flight on the pools.
PoolsQuiescent ==
    /\ \A t \in Threads : tpc[t] = "idle"
    /\ \A p \in Pools : held[p] = {}

IdleConns(p) == { idle[p][j] : j \in DOMAIN idle[p] }

\* C7 (as claimed): whenever no operation is in flight, no connection of
\* either pool is checked out.
C7_ReleaseOnEveryPath ==
    PoolsQuiescent => \A p \in Pools : used[p] = {}

\* C8 (as claimed): in every state, a connection held by an operation is
\* held by no other operation and is not in the idle list of its pool.
C8_ExclusiveCheckout ==
    \A t \in Threads :
        Holding(t) =>
            /\ \A u \in Threads \ {t} :
                  (Holding(u) /\ tpool[u] = tpool[t]) => tconn[u] # tconn[t]
            /\ tconn[t] \notin held[tpool[t]]
            /\ tconn[t] \notin IdleConns(tpool[t])

\* C9 (as claimed): in every state at most maxconn (10) connections of each
\* pool are checked out.
C9_PoolBound ==
    \A p \in Pools : Cardinality(used[p]) <= MaxConn

\* ---------------------------------------------------- claims C11 to C20
ProbeDone(t) == pc[t] = "done" /\ op[t].name = "check_connection"

\* C11: check_connection never raises and returns master = (the write
\* endpoint answered SELECT 1) and slave = (the read endpoint answered),
\* each whatever the other endpoint did.
C11_ProbeIsolation ==
    \A t \in Callers :
        /\ ProbeDone(t) =>
              /\ ret[t].status = "ok"
              /\ ret[t].rows = << [p \in Pools |-> p \in op[t].up] >>
        /\ (op[t].name = "check_connection" /\ pc[t] # "done") =>
              ret[t].status # "raised"

\* The write endpoint answered, the read endpoint did not, and the probe
\* returned master True, slave False.
C11_WriteUpReadDown ==
    \E t \in Callers :
        /\ ProbeDone(t)
        /\ op[t].up = {"master"}
        /\ ret[t].rows = << [p \in Pools |-> p = "master"] >>

\* The memoized DatabaseManager has both pools, and a session is served
\* only by a memoized DatabaseManager.
WholeManager ==
    /\ memo = "manager" => \A p \in Pools : nconn[p] >= MinConn
    /\ \A c \in Callers : spc[c] = "serving" => memo = "manager"

\* Session c's construction step finds the endpoint of its pool refusing.
ConstructionRefused(c) ==
    \/ spc[c] = "master_pool" /\ "master" \notin reach
    \/ spc[c] = "slave_pool" /\ "slave" \notin reach

\* C12: when an endpoint is unreachable while the DatabaseManager is
\* constructed, the construction raises (the script run stops), nothing is
\* memoized and no session is served by a DatabaseManager lacking a pool;
\* the pools of a memoized DatabaseManager are built by its construction
\* only, never later.
C12_InitFailsLoudly ==
    /\ []WholeManager
    /\ [][ /\ \A c \in Callers :
                (ConstructionRefused(c) /\ spc'[c] # spc[c]) =>
                    /\ spc'[c] = "stopped"
                    /\ memo' = "none"
                    /\ UNCHANGED << idle, nconn >>
           /\ memo = "manager" => UNCHANGED << memo, idle, nconn >> ]_vars

\* The read endpoint refused after the master pool was built: the script
\* run stopped and nothing is memoized.
C12_SlaveRefused ==
    \E c \in Callers :
        /\ spc[c] = "stopped"
        /\ built[c] = {"master"}
        /\ memo = "none"

\* delete_transaction of caller t commits its DELETE in this step.
DeleteCommits(t) ==
    /\ pc[t] = "commit"
    /\ stmt[t].kind = "delete_sale"
    /\ pc'[t] = "done"
    /\ ret'[t].ok

\* C13: a delete_transaction(id) that commits on an existing sale removes
\* the sale row and every item row referencing it, and leaves every other
\* sale row and the item rows of the other sales as they were.
C13_DeleteFrame ==
    [][ \A t \in Callers :
          (DeleteCommits(t) /\ HasSale(master, stmt[t].transaction_id)) =>
            LET id == stmt[t].transaction_id
            IN /\ ~HasSale(master', id)
               /\ ItemsOf(master', id) = {}
               /\ master'.sales = master.sales \ {SaleRow(master, id)}
               /\ master'.items = master.items \ ItemsOf(master, id)
               /\ master'.tables = master.tables ]_vars

\* A sale with an item was deleted while another sale with items stays.
C13_DeletedOneOfTwo ==
    \E t \in Callers :
        /\ pc[t] = "done"
        /\ op[t].name = "delete_transaction"
        /\ ret[t].ok
        /\ op[t].transaction_id = 1
        /\ seqT = 2
        /\ ~HasSale(master, 1)
        /\ ItemsOf(master, 1) = {}
        /\ HasSale(master, 2)
        /\ ItemsOf(master, 2) # {}

\* delete_transaction of caller t ends in this step.
DeleteEnds(t) ==
    /\ op[t].name = "delete_transaction"
    /\ pc[t] # "done"
    /\ pc'[t] = "done"

UpdateCommits(t) ==
    /\ pc[t] = "commit"
    /\ stmt[t].kind = "update_sale"
    /\ pc'[t] = "done"
    /\ ret'[t].status = "ok"
    /\ HasSale(master, stmt[t].transaction_id)

\* What the update leaves alone, and what it returns: identity, created_at
\* and total_discount of the row, the item rows, the other sale rows; the
\* descriptive fields are the caller's and the returned Sale is the row.
UpdateFrame(t) ==
    LET id == stmt[t].transaction_id
        old == SaleRow(master, id)
        new == SaleRow(master', id)
    IN /\ HasSale(master', id)
       /\ new.transaction_id = old.transaction_id
       /\ new.created_at = old.created_at
       /\ new.total_discount = old.total_discount
       /\ new.fields = op[t].fields
       /\ master'.sales \ {new} = master.sales \ {old}
       /\ master'.items = master.items
       /\ master'.tables = master.tables
       /\ ret'[t].ok
       /\ ret'[t].sale = new

\* C15 (amended): update_transaction on an existing sale changes only that
\* sale's descriptive fields and total_amount, total_amount becoming the
\* caller's value rounded to 2 decimals (the value itself when it is a whole
\* number of cents) and not recomputed from the items; identity, created_at,
\* total_discount, all item rows and every other sale stay, and the Sale
\* returned is the row as stored.
C15_UpdateFrame ==
    [][ \A t \in Callers :
          UpdateCommits(t) =>
            /\ UpdateFrame(t)
            /\ SaleRow(master', stmt[t].transaction_id).total_amount
                  = Numeric2(op[t].total_amount)
            /\ op[t].total_amount % Cent = 0 =>
                  SaleRow(master', stmt[t].transaction_id).total_amount
                      = op[t].total_amount ]_vars

\* C15 (as claimed): the same, total_amount being the caller's value for
\* every value.
C15_UpdateFrameAnyAmount ==
    [][ \A t \in Callers :
          UpdateCommits(t) =>
            /\ UpdateFrame(t)
            /\ SaleRow(master', stmt[t].transaction_id).total_amount
                  = op[t].total_amount ]_vars

\* A sale with an item and a discount was updated to a total that is not
\* the sum of its items.
C15_Updated ==
    \E t \in Callers :
        /\ pc[t] = "done"
        /\ op[t].name = "update_transaction"
        /\ ret[t].ok
        /\ ret[t].sale.total_amount = 7 * Cent
        /\ ret[t].sale.total_discount = 50 * Cent
        /\ ret[t].sale \in master.sales
        /\ ItemsOf(master, ret[t].sale.transaction_id) # {}

\* get_transaction or update_transaction of caller t ends in this step.
LookupEnds(t) ==
    /\ op[t].name \in {"get_transaction", "update_transaction"}
    /\ pc[t] # "done"
    /\ pc'[t] = "done"

\* The call raises for a failure of the checkout, the statement or the
\* commit only; when it returns, it returns the Sale of its id in database
\* before (the row being after in database after), or the absent result,
\* nothing being changed, when before has no such sale.
FoundOrAbsent(t, before, after) ==
    LET id == op[t].transaction_id IN
    /\ ret'[t].status = "raised" =>
          ret'[t].cause \in ExecutorErrors \cup {"PoolError"}
    /\ ret'[t].status = "ok" =>
          /\ ret'[t].ok <=> HasSale(before, id)
          /\ HasSale(before, id) =>
                /\ ret'[t].sale.transaction_id = id
                /\ ret'[t].sale = SaleRow(after, id)
          /\ ~HasSale(before, id) =>
                /\ ret'[t].sale = NoSale
                /\ master' = master
                /\ slave' = slave

ListedSale(i, order) ==
    [transaction_id |-> i, fields |-> "f1", total_amount |-> i * Cent,
     total_discount |-> 0,
     created_at |-> IF order = "serial" THEN i ELSE (7 * i) % (MaxListed + 2)]

ListedStores ==
    { [EmptyDb EXCEPT !.tables = {SALES, ITEMS},
                      !.sales = { ListedSale(i, order) : i \in 1..n }]
        : n \in 0..MaxListed, order \in {"serial", "scattered"} }

\* view_data_section: the page and the page size the user selected
view_data_section(t) ==
    \E page \in 1..MaxListPage, page_size \in 1..MaxListSize :
        GetTransactions(t, page, page_size)

NextList ==
    \E t \in Callers :
        \/ view_data_section(t)
        \/ get_slave_connection(t)
        \/ execute_read_query(t)
        \/ TakeResult(t)

InitList ==
    /\ InitPool
    /\ Unshared
    /\ Started
    /\ master \in ListedStores
    /\ slave = master
    /\ seqT = Cardinality(master.sales)
    /\ seqI = 0
    /\ origin = [id \in SaleIds |-> << >>]
    /\ pc = [t \in Callers |-> "idle"]
    /\ op = [t \in Callers |-> NoOp]
    /\ stmt = [t \in Callers |-> NoStmt]
    /\ k = [t \in Callers |-> 0]
    /\ transaction = [t \in Callers |-> NoSale]
    /\ conn = [t \in Callers |-> "none"]
    /\ ret = [t \in Callers |-> NoRet]
    /\ updated = {}
    /\ calls = 0
    /\ faults = 0

SpecList == InitList /\ [][NextList]_vars

\* Position of sale r in the sales S ordered by creation time descending.
Position(r, S) == 1 + Cardinality({ q \in S : q.created_at > r.created_at })

DistinctTimes(S) ==
    \A q, r \in S : q.created_at = r.created_at => q = r

\* get_transactions of caller t returns in this step.
ListReturns(t) ==
    /\ op[t].name = "get_transactions"
    /\ pc[t] # "done"
    /\ pc'[t] = "done"
    /\ ret'[t].status = "ok"

\* rows is the page (page, page_size) of the sales S.
IsPage(rows, page, page_size, S) ==
    LET first == (page - 1) * page_size + 1
        last == page * page_size
        n == Cardinality(S)
    IN /\ Len(rows) = IF n < first THEN 0
                      ELSE IF n < last THEN n - first + 1 ELSE page_size
       /\ \A j \in 1..Len(rows) :
             /\ rows[j] \in S
             /\ Position(rows[j], S) = first + j - 1

\* rows is the m oldest sales of S, the newest of them first.
OldestNewestFirst(rows, m, S) ==
    /\ Len(rows) = m
    /\ { rows[j] : j \in 1..m } =
          { r \in S : Cardinality({ q \in S : q.created_at < r.created_at }) < m }
    /\ \A i, j \in 1..m : i < j => rows[i].created_at > rows[j].created_at

\* C17: over sales of distinct creation times, get_transactions(page,
\* page_size) returns exactly the sales at the positions (page-1)*page_size+1
\* .. page*page_size of the list ordered by creation time descending, in that
\* order, fewer or none when the list is shorter; of 15 sales, page 2 of size
\* 10 is the 5 oldest, the newest of them first.
C17_Pagination ==
    [][ \A t \in Callers :
          ListReturns(t) /\ DistinctTimes(slave.sales) =>
            /\ IsPage(ret'[t].rows, op[t].page, op[t].page_size, slave.sales)
            /\ (Cardinality(slave.sales) = 15 /\ op[t].page = 2
                  /\ op[t].page_size = 10) =>
                  OldestNewestFirst(ret'[t].rows, 5, slave.sales) ]_vars

\* Page 2 of size 10 of 15 sales whose creation times do not follow their
\* ids was returned with 5 sales.
C17_SecondPageOfFifteen ==
    \E t \in Callers :
        /\ pc[t] = "done" /\ op[t].name = "get_transactions"
        /\ op[t].page = 2 /\ op[t].page_size = 10
        /\ Cardinality(slave.sales) = 15
        /\ \E r \in slave.sales : r.created_at # r.transaction_id
        /\ Len(ret[t].rows) = 5

\* get_sales_stats of caller t returns in this step.
StatsReturns(t) ==
    /\ op[t].name = "get_sales_stats"
    /\ pc[t] # "done"
    /\ pc'[t] = "done"
    /\ ret'[t].status = "ok"

\* C18 (as claimed): get_sales_stats reports the number of sales, the sum of
\* total_amount over the sales with each sale counted once, the sum of
\* quantity over all item rows, and as average the revenue divided by the
\* number of sales; all four are zero on an empty store.
C18_SummaryStats ==
    [][ \A t \in Callers :
          StatsReturns(t) =>
            LET S == slave.sales
                I == slave.items
                n == Cardinality(S)
                revenue == SumOver(S, [r \in S |-> r.total_amount])
                row == ret'[t].rows[1]
                avg == row.average_transaction_value
            IN /\ row.total_transactions = n
               /\ row.total_revenue = revenue
               /\ row.total_items_sold = SumOver(I, [i \in I |-> i.quantity])
               /\ avg.num * n = revenue * avg.den
               /\ n = 0 => avg.num = 0 ]_vars

\* Caller t takes a step of create_tables.
BootstrapStep(t) ==
    /\ op[t].name = "create_tables"
    /\ pc[t] \in {"getconn", "execute", "commit"}
    /\ pc'[t] # pc[t]

\* The write store after both statements of create_tables.
Bootstrapped(db) == Apply(CreateTable(ITEMS), Apply(CreateTable(SALES), db))

\* C19: while both tables exist no step of create_tables changes a store, and
\* none raises unless the driver fails in that very step; in any store
\* create_tables changes no sale row and no item row and leaves both tables
\* when it returns; and a second run of its statements on the store a first
\* run left fails nowhere and leaves that store.
C19_BootstrapIdempotent ==
    /\ [](LET once == Bootstrapped(master)
          IN /\ ~StmtFails(CreateTable(SALES), once)
             /\ ~StmtFails(CreateTable(ITEMS), once)
             /\ Bootstrapped(once) = once
             /\ once.sales = master.sales
             /\ once.items = master.items)
    /\ [][ \A t \in Callers :
             BootstrapStep(t) =>
               /\ master'.sales = master.sales
               /\ master'.items = master.items
               /\ (pc'[t] = "done" /\ ret'[t].status = "ok") =>
                     master'.tables = {SALES, ITEMS}
               /\ {SALES, ITEMS} \subseteq master.tables =>
                     /\ master' = master
                     /\ slave' = slave
                     /\ ret'[t].status = "raised" => faults' = faults + 1
                     /\ (pc'[t] = "done" /\ faults' = faults) =>
                           ret'[t].status = "ok" ]_vars

\* Two runs of create_tables returned on a store that holds a sale and its
\* item.
C19_TwiceOverRows ==
    /\ \A t \in Callers :
          /\ pc[t] = "done" /\ op[t].name = "create_tables"
          /\ ret[t].status = "ok"
    /\ master.sales # {}
    /\ master.items # {}

\* Some item of the list supplies no discount.
MissingDiscount(items) == \E j \in DOMAIN items : ~items[j].has_discount

\* C20 (as claimed): a create_transaction whose list has an item without
\* discount does not fail for it, and the Sale it returns has the totals
\* of the list with that item's discount taken as 0.
C20_OptionalDiscount ==
    \A t \in Callers :
        (CreateDone(t) /\ MissingDiscount(op[t].items)) =>
            /\ ret[t].cause # "KeyError"
            /\ ret[t].status = "ok" =>
                  /\ ret[t].sale.total_amount = Numeric2(SumTotals(op[t].items))
                  /\ ret[t].sale.total_discount =
                        Numeric2(SumDiscounts(op[t].items))

\* Caller t is in, or has ended, a create_transaction of an empty list.
CreatesEmpty(t) ==
    /\ op[t].name = "create_transaction"
    /\ op[t].items = << >>

\* C21: a create_transaction of an empty item list is not refused: it runs
\* the parent insert and no item insert, it raises only when the checkout,
\* the statement or the commit fails, and otherwise it commits one sale row
\* with total_amount 0 and total_discount 0 and no item row, and returns
\* that row.
C21_EmptyList ==
    /\ [](\A t \in Callers :
            CreatesEmpty(t) =>
              /\ stmt[t].kind \in {"insert_sale", NoStmt.kind}
              /\ (pc[t] = "done" /\ ret[t].status = "raised") =>
                    ret[t].cause \in ExecutorErrors \cup {"PoolError"}
              /\ (pc[t] = "done" /\ ret[t].status = "ok") =>
                    /\ ret[t].sale.transaction_id > 0
                    /\ ret[t].sale.total_amount = 0
                    /\ ret[t].sale.total_discount = 0)
    /\ [][ \A t \in Callers :
             (CreatesEmpty(t) /\ pc[t] # "done" /\ pc'[t] = "done"
                /\ ret'[t].status = "ok") =>
                /\ ret'[t].sale \notin master.sales
                /\ master'.sales = master.sales \cup {ret'[t].sale}
                /\ master'.items = master.items
                /\ ItemsOf(master', ret'[t].sale.transaction_id) = {} ]_vars

\* A create_transaction of an empty list returned a sale that is in the
\* write store without item rows.
C21_EmptySaleStored ==
    \E t \in Callers :
        /\ CreateOk(t)
        /\ op[t].items = << >>
        /\ ret[t].sale \in master.sales
        /\ ItemsOf(master, ret[t].sale.transaction_id) = {}

\* C22: in every reachable state, whatever create_transaction,
\* update_transaction and delete_transaction calls ran, interleaved or
\* failed part-way, every item row of the write store references exactly one
\* sale row of the write store.
C22_ReferentialIntegrity ==
    \A i \in master.items :
        Cardinality({ r \in master.sales :
                        r.transaction_id = i.transaction_id }) = 1

\* With no driver failure injected, an item insert of a create_transaction
\* failed because a delete_transaction had removed the sale its parent
\* insert had committed, while the write store holds item rows.
C22_ParentDeletedMidway ==
    \E t \in Callers :
        /\ CreateDone(t)
        /\ ret[t].status = "raised"
        /\ ret[t].cause \in ExecutorErrors
        /\ faults = 0
        /\ transaction[t].transaction_id > 0
        /\ ~HasSale(master, transaction[t].transaction_id)
        /\ master.items # {}

\* ============================================ shared write connections
\* SpecShared is create_transaction run by the threads of two sessions on
\* the write pool of the one memoized DatabaseManager: the checkout of every
\* execute_write_query goes through the unlocked pool, so that two threads
\* may be handed the same connection, and a statement, a commit or a
\* rollback acts on the transaction of the connection, whoever opened it.
\* _getkey() is two steps as in SpecPool; getconn() after it, and putconn(),
\* run here without a thread switch.

Sessions == Callers \cap Threads

\* The baskets of the sessions: lists the form lets through (not empty,
\* every item with its discount).
SharedBaskets ==
    UNION { [1..n -> { i \in Catalogue : i.has_discount /\ WholeCents(<< i >>) }]
              : n \in 1..MaxItems }

\* The statements pending on connection c, in the order they were executed.
PendingOn(c) == SelectSeq(pending, LAMBDA e : e.conn = c)

\* conn.rollback(), or the end of a closed connection: the statements
\* pending on c are dropped.
RolledBack(c) == SelectSeq(pending, LAMBDA e : e.conn # c)

RECURSIVE ApplyAll(_, _)
\* The database after the statements of q, in order.
ApplyAll(q, db) ==
    IF q = << >> THEN db ELSE ApplyAll(Tail(q), Apply(Head(q).stmt, db))

\* What a statement run on connection c sees: the committed rows and the
\* rows of c's own open transaction.
View(c) == ApplyAll(PendingOn(c), master)

\* add_transaction_section: the form is submitted and create_transaction
\* called with the session's basket.
add_transaction_section(t) ==
    /\ seqT + PendingInserts < MaxSales
    /\ \E items \in SharedBaskets :
          Call(t, [NoOp EXCEPT !.name = "create_transaction", !.items = items,
                               !.fields = "f1"],
               SaleInsert("f1", items), 0)

\* with self.get_master_connection() as conn: getconn() starts and
\* _getkey() loads _keys.
enter_write_connection(t) ==
    /\ pc[t] = "getconn"
    /\ tpc[t] = "idle"
    /\ keys["master"] < MaxKeys
    /\ tpool' = [tpool EXCEPT ![t] = "master"]
    /\ treg' = [treg EXCEPT ![t] = keys["master"]]
    /\ tconn' = [tconn EXCEPT ![t] = 0]
    /\ texc' = [texc EXCEPT ![t] = ""]
    /\ tpc' = [tpc EXCEPT ![t] = "getkey_store"]
    /\ UNCHANGED << idle, used, rused, keys, nconn, held, tkey, entered,
                    serviceVars, startVars, sharedVars >>

\* The with body is left by an exception: the except branch has rolled the
\* connection back (to no avail on a closed one) and the finally branch is
\* next.
BodyRaises(t, exc) ==
    /\ texc' = [texc EXCEPT ![t] = exc]
    /\ tpc' = [tpc EXCEPT ![t] = "putconn"]
    /\ pending' = RolledBack(tconn[t])

\* connection.autocommit = False on the connection getconn() returned. On a
\* connection with a transaction open the assignment raises or not, with
\* the version of the driver.
set_autocommit(t) ==
    LET c == tconn[t] IN
    /\ tpc[t] = "body"
    /\ pc[t] = "getconn"
    /\ \E refused \in IF c \in closed THEN {TRUE}
                      ELSE IF PendingOn(c) # << >> THEN BOOLEAN ELSE {FALSE} :
          IF refused
            THEN /\ BodyRaises(t, IF c \in closed THEN "InterfaceError"
                                  ELSE "ProgrammingError")
                 /\ UNCHANGED << pc, conn >>
            ELSE /\ pc' = [pc EXCEPT ![t] = "execute"]
                 /\ conn' = [conn EXCEPT ![t] = "master"]
                 /\ UNCHANGED << pending, texc, tpc >>
    /\ UNCHANGED << master, slave, seqT, seqI, op, stmt, k, transaction, ret,
                    origin, updated, calls, faults, idle, used, rused, keys,
                    nconn, held, tpool, treg, tkey, tconn, entered, closed,
                    startVars >>

\* cursor.execute(query, params) on the connection held
cursor_execute(t) ==
    LET c == tconn[t] IN
    /\ tpc[t] = "body"
    /\ pc[t] = "execute"
    /\ IF c \in closed \/ StmtFails(stmt[t], View(c))
         THEN /\ BodyRaises(t, IF c \in closed THEN "InterfaceError"
                               ELSE "StatementError")
              /\ UNCHANGED << pc, stmt, seqT, seqI >>
         ELSE /\ stmt' = [stmt EXCEPT ![t] = Assigned(@)]
              /\ seqT' = IF stmt[t].kind = "insert_sale" THEN seqT + 1 ELSE seqT
              /\ seqI' = IF stmt[t].kind = "insert_item" THEN seqI + 1 ELSE seqI
              /\ pending' = Append(pending, [conn |-> c, stmt |-> Assigned(stmt[t])])
              /\ pc' = [pc EXCEPT ![t] = "commit"]
              /\ UNCHANGED << texc, tpc >>
    /\ UNCHANGED << master, slave, op, k, transaction, conn, ret, origin,
                    updated, calls, faults, idle, used, rused, keys, nconn,
                    held, tpool, treg, tkey, tconn, entered, closed, startVars >>

\* conn.commit(): the transaction of the connection is committed, with every
\* statement pending on it.
connection_commit(t) ==
    LET c == tconn[t] IN
    /\ tpc[t] = "body"
    /\ pc[t] = "commit"
    /\ IF c \in closed
         THEN /\ BodyRaises(t, "InterfaceError")
              /\ UNCHANGED master
         ELSE /\ master' = View(c)
              /\ pending' = RolledBack(c)
              /\ tpc' = [tpc EXCEPT ![t] = "putconn"]
              /\ UNCHANGED texc
    /\ UNCHANGED << slave, seqT, seqI, pc, op, stmt, k, transaction, conn, ret,
                    origin, updated, calls, faults, idle, used, rused, keys,
                    nconn, held, tpool, treg, tkey, tconn, entered, closed,
                    startVars >>

\* The rows execute_write_query returns: those its statement's RETURNING
\* produced when it was executed.
ReturnedRows(s) ==
    IF s.kind = "insert_sale" THEN << StoredSale(s) >> ELSE << >>

\* finally: self._master_pool.putconn(connection). The connection's key is
\* looked up (PoolError when it has none); with fewer than minconn idle the
\* connection, rolled back when a transaction is open on it, goes back to
\* the idle list, and it is closed otherwise; the entries of the key are
\* deleted. Then execute_write_query returns or raises to create_transaction.
release_write_connection(t) ==
    LET c == tconn[t]
        key == RusedGet("master", c)
        keep == Len(idle["master"]) < MinConn
        exc == IF key = 0 THEN "PoolError"
               ELSE IF key \notin UsedKeys("master") THEN "KeyError"
               ELSE texc[t]
    IN /\ tpc[t] = "putconn"
       /\ IF key = 0
            THEN UNCHANGED << idle, used, rused, pending, closed >>
            ELSE /\ idle' = [idle EXCEPT !["master"] =
                                IF keep /\ c \notin closed THEN Append(@, c) ELSE @]
                 /\ closed' = IF keep THEN closed ELSE closed \cup {c}
                 /\ pending' = RolledBack(c)
                 /\ IF key \in UsedKeys("master")
                      THEN /\ used' = [used EXCEPT !["master"] =
                                          { e \in @ : e.key # key }]
                           /\ rused' = [rused EXCEPT !["master"] =
                                          { e \in @ : e.conn # c }]
                      ELSE UNCHANGED << used, rused >>
       /\ Leave(t, exc)
       /\ conn' = [conn EXCEPT ![t] = "none"]
       /\ OnResult(t, exc, IF exc = "" THEN ReturnedRows(stmt[t]) ELSE << >>)
       /\ UNCHANGED << master, slave, seqT, seqI, op, origin, updated, calls,
                       faults, keys, nconn, held, entered, startVars >>

NextShared ==
    \E t \in Sessions :
        \/ add_transaction_section(t)
        \/ enter_write_connection(t)
        \/ getkey_store(t)
        \/ getkey_return(t)
        \/ getconn(t)
        \/ connect(t)
        \/ set_autocommit(t)
        \/ cursor_execute(t)
        \/ connection_commit(t)
        \/ release_write_connection(t)

SpecShared == InitPoolSpec /\ [][NextShared]_vars

\* The identity the parent insert of caller t's create_transaction
\* obtained: 0 before the insert has been executed.
Obtained(t) ==
    IF op[t].name # "create_transaction" THEN 0
    ELSE IF stmt[t].kind = "insert_sale" THEN stmt[t].transaction_id
    ELSE transaction[t].transaction_id

\* C23 (as claimed): however create_transaction calls interleave, the
\* identities their parent inserts obtain differ from one another and from
\* those of the stored sales, every item insert of a call references the
\* identity the call obtained, and a call that returns leaves its sale with
\* exactly the rows of its own item list.
C23_NoMixing ==
    /\ [](\A t \in Callers :
            /\ \A u \in Callers \ {t} :
                  Obtained(t) # 0 => Obtained(t) # Obtained(u)
            /\ stmt[t].kind = "insert_item" =>
                  /\ Obtained(t) # 0
                  /\ stmt[t].transaction_id = Obtained(t))
    /\ [][ \A t \in Callers :
             /\ (Obtained(t) = 0 /\ Obtained(t)' # 0) =>
                   ~HasSale(master, Obtained(t)')
             /\ CreateReturns(t) =>
                   /\ ret'[t].sale.transaction_id = Obtained(t)
                   /\ RowsOfList(master', Obtained(t), op[t].items) ]_vars

\* ------------------------------------------------- the caller's mappings
\* The keys of the parent-field mapping add_transaction_section passes, and
\* of the item mapping of a basket item (product_code and category go with
\* product_name in Item).
ParentKeys ==
    {"transaction_time", "cashier_id", "store_id", "payment_method", "customer_id"}

ItemKeys(i) ==
    {"product_code", "product_name", "category", "quantity", "unit_price"}
        \cup (IF i.has_discount THEN {"discount"} ELSE {})

\* The keys of the caller's transaction_data as caller t's call has left
\* it: create_transaction assigns total_amount and total_discount to it
\* before the parent insert. It assigns to no other key.
TransactionData(t) ==
    ParentKeys \cup (IF op[t].name = "create_transaction"
                       THEN {"total_amount", "total_discount"} ELSE {})

\* The keys of the mappings of the caller's items_data as caller t's call
\* has left them: the item loop assigns transaction_id and total_price to
\* the mapping of every item it has reached (k[t] of them), before it
\* builds the item's insert. It assigns to no other key.
ItemsData(t) ==
    [j \in DOMAIN op[t].items |->
        ItemKeys(op[t].items[j])
            \cup (IF op[t].name = "create_transaction" /\ j <= k[t]
                    THEN {"transaction_id", "total_price"} ELSE {})]

\* C24 (as claimed): when create_transaction has returned or raised, the
\* caller's parent-field mapping and every item mapping of the caller's
\* list have exactly the keys they had before the call.
C24_CallerDataUnchanged ==
    \A t \in Callers :
        CreateDone(t) =>
            /\ TransactionData(t) = ParentKeys
            /\ \A j \in DOMAIN op[t].items :
                  ItemsData(t)[j] = ItemKeys(op[t].items[j])

====
